---- MODULE Spec2Model ----
(***************************************************************************)
(* Model of pychromvar/compute_deviations.py: the expectation estimator    *)
(* (compute_expectation), the deviation primitive (_compute_deviations and *)
(* _compute_deviations_gpu) and the chunked orchestration of               *)
(* compute_deviations with its final normalisation.                        *)
(*                                                                         *)
(* Numbers.  A float is modelled as an extended rational <<n, d>>:         *)
(*   d > 0   the finite value n/d, in lowest terms;                        *)
(*   <<0,0>> NaN, <<1,0>> +inf, <<-1,0>> -inf;                              *)
(*   <<2,0>> and <<-2,0>> the largest and smallest finite float32, which   *)
(*           np.nan_to_num substitutes for +inf and -inf (their magnitude  *)
(*           3.4e38 exceeds the integers of the model checker).            *)
(* Finite arithmetic is exact: rounding is not modelled.  Every zero       *)
(* divisor of the program is a sum of non-negative terms or a square root, *)
(* so negative zero does not occur as a divisor.                           *)
(*                                                                         *)
(* Square roots.  np.std / torch.std return sqrt(v) for a radicand v; the  *)
(* model keeps v in std_bg_dev, and keeps a quotient x / sqrt(v) as its    *)
(* signed square sgn(x) * x^2 / v.  The map z |-> sgn(z) * z^2 is a        *)
(* bijection of the reals fixing 0, so equality of entries of dev, and an  *)
(* entry being 0, mean the same in the model as in the program.            *)
(*                                                                         *)
(* Indices.  Sequences are 1-based; start and end keep the program's       *)
(* 0-based half-open row range [start, end), i.e. rows start+1 .. end.     *)
(* Entries of bg_peaks are 1-based region indices.                         *)
(***************************************************************************)
EXTENDS Integers, Sequences, FiniteSets, TLC

VARIABLES
    data_kind,        \* type of the `data` argument
    X,                \* adata.X: count matrix, n_obs rows of n_var counts
    varm,             \* adata.varm: key -> matrix, keys may be missing
    chunk_size,       \* argument chunk_size
    gpu,              \* argument gpu
    pc,               \* position in compute_deviations
    error,            \* the exception raised, "" when none
    expectation_obs,  \* per-cell expectation (b), <<>> before it is computed
    expectation_var,  \* per-region expectation (a), <<>> before it is computed
    n_bg_peaks,       \* local n_bg_peaks
    motif_match,      \* local motif_match
    obs_dev,          \* local obs_dev, <<>> before allocation
    bg_dev,           \* local bg_dev, <<>> before allocation
    start,            \* current chunk's first row (0-based)
    end,              \* current chunk's end row (exclusive)
    i,                \* background sample index of the inner loop
    mean_bg_dev,      \* local mean_bg_dev
    std_bg_dev,       \* local std_bg_dev, kept as the radicand of the root
    dev,              \* local dev / the returned matrix
    n_expectation,    \* history: number of calls of compute_expectation
    obs_writes,       \* history: number of writes of each row of obs_dev
    bg_writes         \* history: number of writes of each (sample, row) of bg_dev

vars == <<data_kind, X, varm, chunk_size, gpu, pc, error, expectation_obs,
          expectation_var, n_bg_peaks, motif_match, obs_dev, bg_dev, start, end,
          i, mean_bg_dev, std_bg_dev, dev, n_expectation, obs_writes, bg_writes>>

-----------------------------------------------------------------------------
(* Extended rational arithmetic (IEEE 754 special values, exact otherwise) *)

Abs(n) == IF n < 0 THEN -n ELSE n

Sgn(n) == IF n > 0 THEN 1 ELSE IF n < 0 THEN -1 ELSE 0

RECURSIVE GCD(_, _)
GCD(a, b) == IF b = 0 THEN a ELSE GCD(b, a % b)

\* n/d in lowest terms, for d > 0
Norm(n, d) == LET g == GCD(Abs(n), d) IN <<n \div g, d \div g>>

NaN == <<0, 0>>
PosInf == <<1, 0>>
NegInf == <<-1, 0>>
FltMax == <<2, 0>>
FltMin == <<-2, 0>>
Zero == <<0, 1>>
One == <<1, 1>>

Rat(n) == <<n, 1>>

IsNaN(x) == x = NaN
IsInf(x) == x = PosInf \/ x = NegInf
IsFinite(x) == x[2] > 0
Inf(s) == IF s > 0 THEN PosInf ELSE NegInf

Neg(x) == <<-x[1], x[2]>>

Add(x, y) ==
    IF IsNaN(x) \/ IsNaN(y) THEN NaN
    ELSE IF IsInf(x) THEN (IF IsInf(y) /\ y # x THEN NaN ELSE x)
    ELSE IF IsInf(y) THEN y
    ELSE LET g == GCD(x[2], y[2])
         IN Norm(x[1] * (y[2] \div g) + y[1] * (x[2] \div g), (x[2] \div g) * y[2])

Sub(x, y) == Add(x, Neg(y))

\* the product of two finite values, reduced before multiplying
MulFinite(x, y) ==
    LET g1 == GCD(Abs(x[1]), y[2])
        g2 == GCD(Abs(y[1]), x[2])
    IN IF x[1] = 0 \/ y[1] = 0 THEN <<0, 1>>
       ELSE <<(x[1] \div g1) * (y[1] \div g2), (x[2] \div g2) * (y[2] \div g1)>>

Mul(x, y) ==
    IF IsNaN(x) \/ IsNaN(y) THEN NaN
    ELSE IF IsInf(x) \/ IsInf(y)
         THEN (IF x[1] = 0 \/ y[1] = 0 THEN NaN ELSE Inf(Sgn(x[1]) * Sgn(y[1])))
    ELSE MulFinite(x, y)

\* x / y; a zero divisor is +0
Div(x, y) ==
    IF IsNaN(x) \/ IsNaN(y) THEN NaN
    ELSE IF IsInf(x) THEN (IF IsInf(y) THEN NaN
                           ELSE Inf(Sgn(x[1]) * (IF y[1] < 0 THEN -1 ELSE 1)))
    ELSE IF IsInf(y) THEN Zero
    ELSE IF y[1] = 0 THEN (IF x[1] = 0 THEN NaN ELSE Inf(Sgn(x[1])))
    ELSE MulFinite(x, <<Sgn(y[1]) * y[2], Abs(y[1])>>)

\* x / sqrt(v), kept as its signed square sgn(x) * x^2 / v
DivBySqrt(x, v) ==
    IF IsNaN(x) \/ IsNaN(v) \/ v[1] < 0 THEN NaN
    ELSE IF IsInf(x) THEN (IF IsInf(v) THEN NaN ELSE x)
    ELSE IF IsInf(v) THEN Zero
    ELSE IF v[1] = 0 THEN (IF x[1] = 0 THEN NaN ELSE Inf(Sgn(x[1])))
    ELSE Mul(Rat(Sgn(x[1])), Div(Mul(x, x), v))

RECURSIVE SumSeq(_)
SumSeq(s) == IF s = <<>> THEN Zero ELSE Add(s[1], SumSeq(Tail(s)))

-----------------------------------------------------------------------------
(* Matrices: a matrix is a sequence of rows, a row a sequence of entries   *)

RECURSIVE SumInt(_)
SumInt(s) == IF s = <<>> THEN 0 ELSE s[1] + SumInt(Tail(s))

NRows(m) == Len(m)
NCols(m) == Len(m[1])

\* m[idx, :] : the rows of m selected by the index vector idx
SelectRows(m, idx) == [j \in 1..Len(idx) |-> m[idx[j]]]

\* m[:, k] for a 0-based column k
Column(m, k) == [j \in 1..Len(m) |-> m[j][k + 1]]

\* s[lo:hi] for a 0-based half-open range
Slice(s, lo, hi) == SubSeq(s, lo + 1, hi)

\* the slice lo:hi taken one row short at its lower end, as lo+1:hi
RowRangeShort(lo, hi) == {r \in 1..hi : lo + 1 < r}

\* the rows that the slice lo:hi addresses
RowRange(lo, hi) == {r \in 1..hi : lo < r}

\* dst[lo:hi, :] = src
AssignRows(dst, lo, hi, src) ==
    [r \in 1..Len(dst) |-> IF r \in RowRange(lo, hi) THEN src[r - lo] ELSE dst[r]]

\* the write counts after one more write of dst[lo:hi, :]
CountWrite(writes, lo, hi) ==
    [r \in 1..Len(writes) |-> IF r \in RowRange(lo, hi) THEN writes[r] + 1 ELSE writes[r]]

\* np.zeros((n, m)) / torch.zeros(size=(n, m))
Zeros(n, m) == [r \in 1..n |-> [f \in 1..m |-> Zero]]

-----------------------------------------------------------------------------
(* compute_expectation                                                     *)

\* compute_expectation without the statement `a /= a.sum()`
compute_expectation_unnormalised(count) ==
    LET a0 == [j \in 1..NCols(count) |->
                  Rat(SumInt([r \in 1..NRows(count) |-> count[r][j]]))]
        b == [r \in 1..NRows(count) |-> Rat(SumInt(count[r]))]
    IN <<b, a0>>

\* a = count.sum(0); a /= a.sum(); b = count.sum(1); return b, a
compute_expectation(count) ==
    LET a0 == [j \in 1..NCols(count) |->
                  Rat(SumInt([r \in 1..NRows(count) |-> count[r][j]]))]
        total == SumSeq(a0)
        a == [j \in 1..NCols(count) |-> Div(a0[j], total)]
        b == [r \in 1..NRows(count) |-> Rat(SumInt(count[r]))]
    IN <<b, a>>

-----------------------------------------------------------------------------
(* The deviation primitive, host and accelerator variants                  *)

\* count.dot(motif_match) / torch.matmul(count, motif_match)
Observed(mm, count) ==
    [r \in 1..NRows(count) |-> [f \in 1..NCols(mm) |->
        Rat(SumInt([j \in 1..NRows(mm) |-> count[r][j] * mm[j][f]]))]]

\* expectation_obs.dot(expectation_var.dot(motif_match))
Expected(mm, e_obs, e_var) ==
    LET inner == [f \in 1..NCols(mm) |->
                     SumSeq([j \in 1..NRows(mm) |-> Mul(e_var[j], Rat(mm[j][f]))])]
    IN [r \in 1..Len(e_obs) |-> [f \in 1..NCols(mm) |-> Mul(e_obs[r], inner[f])]]

\* out = zeros; np.divide(observed - expected, expected, out=out, where=expected != 0)
_compute_deviations(arguments) ==
    LET mm == arguments[1]
        count == arguments[2]
        observed == Observed(mm, count)
        expected == Expected(mm, arguments[3], arguments[4])
    IN [r \in 1..NRows(count) |-> [f \in 1..NCols(mm) |->
          IF expected[r][f] # Zero
          THEN Div(Sub(observed[r][f], expected[r][f]), expected[r][f])
          ELSE Zero]]

\* _compute_deviations_gpu without the statement `out[expected == 0] = 0`
compute_deviations_gpu_unguarded(arguments) ==
    LET mm == arguments[1]
        count == arguments[2]
        observed == Observed(mm, count)
        expected == Expected(mm, arguments[3], arguments[4])
    IN [r \in 1..NRows(count) |-> [f \in 1..NCols(mm) |->
          Div(Sub(observed[r][f], expected[r][f]), expected[r][f])]]

\* torch.div(observed - expected, expected, out=out); out[expected == 0] = 0
_compute_deviations_gpu(arguments) ==
    LET mm == arguments[1]
        count == arguments[2]
        observed == Observed(mm, count)
        expected == Expected(mm, arguments[3], arguments[4])
        out == [r \in 1..NRows(count) |-> [f \in 1..NCols(mm) |->
                   Div(Sub(observed[r][f], expected[r][f]), expected[r][f])]]
    IN [r \in 1..NRows(count) |-> [f \in 1..NCols(mm) |->
          IF expected[r][f] = Zero THEN Zero ELSE out[r][f]]]

\* the variant compute_deviations calls under the gpu flag
Deviations(g, arguments) ==
    IF g THEN _compute_deviations_gpu(arguments) ELSE _compute_deviations(arguments)

-----------------------------------------------------------------------------
(* Aggregation over the background samples                                 *)

\* np.mean(bg_dev, axis=0) / torch.mean(bg_dev, axis=0)
Mean(bg) ==
    [r \in 1..Len(bg[1]) |-> [f \in 1..Len(bg[1][1]) |->
        Div(SumSeq([k \in 1..Len(bg) |-> bg[k][r][f]]), Rat(Len(bg)))]]

\* sum of squared differences from the mean, divided by Len(bg) - ddof
Variance(bg, ddof) ==
    LET m == Mean(bg)
    IN [r \in 1..Len(bg[1]) |-> [f \in 1..Len(bg[1][1]) |->
          Div(SumSeq([k \in 1..Len(bg) |->
                         Mul(Sub(bg[k][r][f], m[r][f]), Sub(bg[k][r][f], m[r][f]))]),
              Rat(Len(bg) - ddof))]]

\* the radicand of np.std(bg_dev, axis=0), whose ddof defaults to 0
NpStd(bg) == Variance(bg, 0)

\* the radicand of torch.std(bg_dev, axis=0), whose correction defaults to 1
TorchStd(bg) == Variance(bg, 1)

\* (obs_dev - mean_bg_dev) / std_bg_dev, entries kept as signed squares
Quotient(obs, mean, std) ==
    [r \in 1..Len(obs) |-> [f \in 1..Len(obs[1]) |->
        DivBySqrt(Sub(obs[r][f], mean[r][f]), std[r][f])]]

\* line 91 without effect: every entry is kept as it is
NanToNumDropped(x) == x

\* np.nan_to_num(dev, 0): the 0 is the `copy` argument; nan=0.0, posinf and
\* neginf default to the largest and smallest finite value of the dtype
NanToNum(x) ==
    IF IsNaN(x) THEN Zero
    ELSE IF x = PosInf THEN FltMax
    ELSE IF x = NegInf THEN FltMin
    ELSE x

nan_to_num(d) == [r \in 1..Len(d) |-> [f \in 1..Len(d[1]) |-> NanToNum(d[r][f])]]

-----------------------------------------------------------------------------
(* Inputs                                                                  *)

\* count matrices are built from CountRows for up to MaxCells cells
MaxCells == 2
\* bg_peaks has 1 to MaxBgSamples columns
MaxBgSamples == 2
\* chunk_size ranges over 1..MaxChunkSize
MaxChunkSize == 3

\* rows of the count matrix over three regions
CountRows == {<<4, 0, 0>>, <<0, 2, 2>>}

\* a matrix without any read, a cell without any read, and unequal depths
ExtraCounts == {<<<<0, 0, 0>>>>,
                <<<<0, 0, 0>>, <<4, 0, 0>>>>,
                <<<<1, 0, 2>>, <<0, 3, 0>>, <<2, 2, 1>>>>}

Counts == UNION {[1..n -> CountRows] : n \in 1..MaxCells} \cup ExtraCounts

\* feature-match matrices, three regions by two features
ScenarioMatch == <<<<1, 0>>, <<1, 1>>, <<0, 1>>>>

\* the second one has a feature that no region carries
Matches == {ScenarioMatch, <<<<1, 0>>, <<0, 0>>, <<1, 0>>>>}

\* one background sample: for each region the region that substitutes for it
IdentityColumn == <<1, 2, 3>>

BgColumns == {IdentityColumn, <<2, 3, 1>>, <<3, 3, 1>>}

\* bg_peaks, shape (n_regions, n_bg_samples), from its columns
FromColumns(cols) == [j \in 1..3 |-> [k \in 1..Len(cols) |-> cols[k][j]]]

BgPeaks == {FromColumns(cols) : cols \in UNION {[1..k -> BgColumns] : k \in 1..MaxBgSamples}}

ScenarioCount == <<<<4, 0, 0>>, <<0, 2, 2>>>>

ScenarioBg == FromColumns(<<IdentityColumn>>)

\* adata.varm with both, one or none of its two keys
Varms ==
    {[k \in {"motif_match", "bg_peaks"} |-> IF k = "motif_match" THEN m ELSE b] :
        m \in Matches, b \in BgPeaks}
    \cup {[k \in {"motif_match"} |-> m] : m \in Matches}
    \cup {[k \in {"bg_peaks"} |-> b] : b \in BgPeaks}
    \cup {[k \in {} |-> 0]}

\* the `data` argument: an AnnData, a MuData with an 'atac' modality, a MuData
\* without one, anything else
DataKinds == {"AnnData", "MuData", "MuDataNoAtac", "Other"}

n_obs == Len(X)

Min(a, b) == IF a < b THEN a ELSE b

-----------------------------------------------------------------------------
(* compute_deviations                                                      *)

TypeErrorMsg == "TypeError: Expected AnnData or MuData object with 'atac' modality"
AssertMsg == "AssertionError: Cannot find background peaks in the input object, please first run get_bg_peaks!"
KeyErrorMsg == "KeyError: 'motif_match'"

Unset == <<>>

Locals0 ==
    /\ pc = "start"
    /\ error = ""
    /\ expectation_obs = Unset
    /\ expectation_var = Unset
    /\ n_bg_peaks = 0
    /\ motif_match = Unset
    /\ obs_dev = Unset
    /\ bg_dev = Unset
    /\ start = 0
    /\ end = 0
    /\ i = 0
    /\ mean_bg_dev = Unset
    /\ std_bg_dev = Unset
    /\ dev = Unset
    /\ n_expectation = 0
    /\ obs_writes = Unset
    /\ bg_writes = Unset

Init ==
    /\ \/ /\ data_kind = "AnnData"
          /\ X \in Counts
          /\ varm \in Varms
          /\ chunk_size \in 1..MaxChunkSize
          /\ gpu \in BOOLEAN
       \/ /\ data_kind \in DataKinds \ {"AnnData"}
          /\ X = ScenarioCount
          /\ varm \in {v \in Varms : "motif_match" \in DOMAIN v => v["motif_match"] = ScenarioMatch}
          /\ chunk_size = 1
          /\ gpu \in BOOLEAN
    /\ Locals0

\* lines 32-41: the type dispatch and the bg_peaks assertion
CheckInput ==
    /\ pc = "start"
    /\ IF data_kind \notin {"AnnData", "MuData"}
       THEN pc' = "error" /\ error' = TypeErrorMsg
       ELSE IF "bg_peaks" \notin DOMAIN varm
       THEN pc' = "error" /\ error' = AssertMsg
       ELSE pc' = "expectation" /\ error' = error
    /\ UNCHANGED <<data_kind, X, varm, chunk_size, gpu, expectation_obs,
                   expectation_var, n_bg_peaks, motif_match, obs_dev, bg_dev, start,
                   end, i, mean_bg_dev, std_bg_dev, dev, n_expectation, obs_writes,
                   bg_writes>>

\* line 43
ComputeExpectation ==
    /\ pc = "expectation"
    /\ expectation_obs' = compute_expectation(X)[1]
    /\ expectation_var' = compute_expectation(X)[2]
    /\ n_expectation' = n_expectation + 1
    /\ pc' = "allocate"
    /\ UNCHANGED <<data_kind, X, varm, chunk_size, gpu, error, n_bg_peaks,
                   motif_match, obs_dev, bg_dev, start, end, i, mean_bg_dev,
                   std_bg_dev, dev, obs_writes, bg_writes>>

\* lines 47-57: n_bg_peaks, motif_match and the zero-filled accumulators; the
\* lookup varm['motif_match'] raises KeyError when the key is missing.
\* len(adata.uns['motif_name']) is taken to equal motif_match.shape[1].
Allocate ==
    /\ pc = "allocate"
    /\ n_bg_peaks' = NCols(varm["bg_peaks"])
    /\ IF "motif_match" \notin DOMAIN varm
       THEN /\ pc' = "error"
            /\ error' = KeyErrorMsg
            /\ UNCHANGED <<motif_match, obs_dev, bg_dev, obs_writes, bg_writes>>
       ELSE /\ pc' = "chunk"
            /\ error' = error
            /\ motif_match' = varm["motif_match"]
            /\ obs_dev' = Zeros(n_obs, NCols(varm["motif_match"]))
            /\ bg_dev' = [k \in 1..n_bg_peaks' |-> Zeros(n_obs, NCols(varm["motif_match"]))]
            /\ obs_writes' = [r \in 1..n_obs |-> 0]
            /\ bg_writes' = [k \in 1..n_bg_peaks' |-> [r \in 1..n_obs |-> 0]]
    /\ UNCHANGED <<data_kind, X, varm, chunk_size, gpu, expectation_obs,
                   expectation_var, start, end, i, mean_bg_dev, std_bg_dev, dev,
                   n_expectation>>

\* the background loop as `for i in range(n_bg_peaks - 1)`
BgLoopOneShort(k) == k < n_bg_peaks - 1

\* line 70: `for i in range(n_bg_peaks)` has an iteration for index k
BgLoopContinues(k) == k < n_bg_peaks

\* motif_match without the substitution of the background peaks
BgMotifMatchUnselected(k) == varm["motif_match"]

\* adata.chunked_X(chunk_size): the row range that follows position pos
ChunkEnd(pos) == Min(pos + chunk_size, n_obs)

\* line 72/76 and 73/77: motif_match[bg_peaks[:, k], :]
BgMotifMatch(k) == SelectRows(varm["motif_match"], Column(varm["bg_peaks"], k))

\* the arguments with expectation_obs[:hi - lo] in place of expectation_obs[lo:hi]
ObsArgumentsUnsliced(lo, hi) ==
    <<motif_match, Slice(X, lo, hi), Slice(expectation_obs, 0, hi - lo), expectation_var>>

\* the arguments of the primitive at lines 66/68
ObsArguments(lo, hi) ==
    <<motif_match, Slice(X, lo, hi), Slice(expectation_obs, lo, hi), expectation_var>>

\* the arguments of the primitive at lines 74/78
BgArguments(k, lo, hi) ==
    <<BgMotifMatch(k), Slice(X, lo, hi), Slice(expectation_obs, lo, hi), expectation_var>>

\* lines 60-68: the next chunk of the iterator and its observed deviations
ChunkObserved ==
    /\ pc = "chunk"
    /\ end < n_obs
    /\ start' = end
    /\ end' = ChunkEnd(end)
    /\ obs_dev' = AssignRows(obs_dev, start', end', Deviations(gpu, ObsArguments(start', end')))
    /\ obs_writes' = CountWrite(obs_writes, start', end')
    /\ i' = 0
    /\ pc' = IF BgLoopContinues(0) THEN "bg" ELSE "chunk"
    /\ UNCHANGED <<data_kind, X, varm, chunk_size, gpu, error, expectation_obs,
                   expectation_var, n_bg_peaks, motif_match, bg_dev, mean_bg_dev,
                   std_bg_dev, dev, n_expectation, bg_writes>>

\* lines 70-78: one iteration of the background loop
ChunkBackground ==
    /\ pc = "bg"
    /\ BgLoopContinues(i)
    /\ bg_dev' = [bg_dev EXCEPT ![i + 1] =
                     AssignRows(@, start, end, Deviations(gpu, BgArguments(i, start, end)))]
    /\ bg_writes' = [bg_writes EXCEPT ![i + 1] = CountWrite(@, start, end)]
    /\ i' = i + 1
    /\ pc' = IF BgLoopContinues(i + 1) THEN "bg" ELSE "chunk"
    /\ UNCHANGED <<data_kind, X, varm, chunk_size, gpu, error, expectation_obs,
                   expectation_var, n_bg_peaks, motif_match, obs_dev, start, end,
                   mean_bg_dev, std_bg_dev, dev, n_expectation, obs_writes>>

\* lines 79-90: entered when the chunk iterator is exhausted
Aggregate ==
    /\ pc = "chunk"
    /\ end >= n_obs
    /\ mean_bg_dev' = Mean(bg_dev)
    /\ std_bg_dev' = IF gpu THEN TorchStd(bg_dev) ELSE NpStd(bg_dev)
    /\ dev' = Quotient(obs_dev, mean_bg_dev', std_bg_dev')
    /\ pc' = "nan_to_num"
    /\ UNCHANGED <<data_kind, X, varm, chunk_size, gpu, error, expectation_obs,
                   expectation_var, n_bg_peaks, motif_match, obs_dev, bg_dev, start,
                   end, i, n_expectation, obs_writes, bg_writes>>

\* lines 91-95
Finish ==
    /\ pc = "nan_to_num"
    /\ dev' = nan_to_num(dev)
    /\ pc' = "done"
    /\ UNCHANGED <<data_kind, X, varm, chunk_size, gpu, error, expectation_obs,
                   expectation_var, n_bg_peaks, motif_match, obs_dev, bg_dev, start,
                   end, i, mean_bg_dev, std_bg_dev, n_expectation, obs_writes,
                   bg_writes>>

Next ==
    \/ CheckInput
    \/ ComputeExpectation
    \/ Allocate
    \/ ChunkObserved
    \/ ChunkBackground
    \/ Aggregate
    \/ Finish

Spec == Init /\ [][Next]_vars

-----------------------------------------------------------------------------
(* compute_expectation on its own: every 2 x 3 count matrix with entries   *)
(* up to MaxCount                                                          *)

\* the largest entry of a count matrix
MaxCount == 2

InitExpectation ==
    /\ data_kind = "AnnData"
    /\ X \in [1..2 -> [1..3 -> 0..MaxCount]]
    /\ varm = [k \in {"motif_match", "bg_peaks"} |->
                  IF k = "motif_match" THEN ScenarioMatch ELSE ScenarioBg]
    /\ chunk_size = 1
    /\ gpu \in BOOLEAN
    /\ pc = "expectation"
    /\ error = ""
    /\ expectation_obs = Unset
    /\ expectation_var = Unset
    /\ n_bg_peaks = 0
    /\ motif_match = Unset
    /\ obs_dev = Unset
    /\ bg_dev = Unset
    /\ start = 0
    /\ end = 0
    /\ i = 0
    /\ mean_bg_dev = Unset
    /\ std_bg_dev = Unset
    /\ dev = Unset
    /\ n_expectation = 0
    /\ obs_writes = Unset
    /\ bg_writes = Unset

SpecExpectation == InitExpectation /\ [][ComputeExpectation]_vars

\* the sum of all entries of the count matrix
Total(count) == SumInt([r \in 1..NRows(count) |-> SumInt(count[r])])

\* the sum of column j of the count matrix
ColSum(count, j) == SumInt([r \in 1..NRows(count) |-> count[r][j]])

\* C4 as stated: for every non-negative count matrix, the all-zero one
\* included, the entries of e_region sum to 1.
C4_AsStated ==
    pc = "allocate" => SumSeq(expectation_var) = One

\* C4, amended: for every non-negative count matrix with at least one read,
\* e_region[j] is the share colsum_j / total of region j (stated without the
\* division: numerator * total = colsum_j * denominator) and the entries of
\* e_region sum to 1; e_cell[r] is the row sum of cell r.
C4_ExpectationNormalised ==
    (pc = "allocate" /\ Total(X) > 0) =>
        /\ SumSeq(expectation_var) = One
        /\ \A j \in 1..NCols(X) :
              /\ IsFinite(expectation_var[j])
              /\ expectation_var[j][1] * Total(X) = ColSum(X, j) * expectation_var[j][2]
        /\ \A r \in 1..NRows(X) : expectation_obs[r] = Rat(SumInt(X[r]))

\* a matrix with reads in several regions has been normalised
C4_Witness ==
    /\ pc = "allocate"
    /\ Total(X) > 0
    /\ \E j, k \in 1..NCols(X) : j # k /\ ColSum(X, j) > 0 /\ ColSum(X, k) > ColSum(X, j)

-----------------------------------------------------------------------------
(* The deviation primitive on its own: finite non-negative arguments that  *)
(* need not come from compute_expectation                                  *)

\* count rows of the primitive's count argument
PrimitiveRows == {<<0, 0, 0>>, <<1, 0, 2>>, <<0, MaxCount, 1>>}

\* rows of the primitive's motif_match argument
PrimitiveMatchRows == {<<0, 0>>, <<1, 0>>, <<1, 1>>}

\* entries of expectation_obs and of expectation_var
PrimitiveObs == {Zero, Rat(3)}
PrimitiveVar == {Zero, <<1, 2>>}

InitPrimitive ==
    /\ data_kind = "AnnData"
    /\ X \in [1..2 -> PrimitiveRows]
    /\ motif_match \in [1..3 -> PrimitiveMatchRows]
    /\ expectation_obs \in [1..2 -> PrimitiveObs]
    /\ expectation_var \in [1..3 -> PrimitiveVar]
    /\ gpu \in BOOLEAN
    /\ varm = [k \in {} |-> 0]
    /\ chunk_size = 2
    /\ pc = "primitive"
    /\ error = ""
    /\ n_bg_peaks = 0
    /\ obs_dev = Unset
    /\ bg_dev = Unset
    /\ start = 0
    /\ end = 2
    /\ i = 0
    /\ mean_bg_dev = Unset
    /\ std_bg_dev = Unset
    /\ dev = Unset
    /\ n_expectation = 0
    /\ obs_writes = Unset
    /\ bg_writes = Unset

\* one call of _compute_deviations or _compute_deviations_gpu; the result is
\* kept in obs_dev
CallPrimitive ==
    /\ pc = "primitive"
    /\ obs_dev' = Deviations(gpu, <<motif_match, X, expectation_obs, expectation_var>>)
    /\ pc' = "returned"
    /\ UNCHANGED <<data_kind, X, varm, chunk_size, gpu, error, expectation_obs,
                   expectation_var, n_bg_peaks, motif_match, bg_dev, start, end, i,
                   mean_bg_dev, std_bg_dev, dev, n_expectation, obs_writes,
                   bg_writes>>

SpecPrimitive == InitPrimitive /\ [][CallPrimitive]_vars

\* observed[r, f] = sum_j count[r, j] * match[j, f]
ObservedAt(mm, count, r, f) ==
    SumInt([j \in 1..NRows(mm) |-> count[r][j] * mm[j][f]])

\* expected[r, f] = e_cell[r] * sum_j e_region[j] * match[j, f]
ExpectedAt(mm, e_obs, e_var, r, f) ==
    Mul(e_obs[r], SumSeq([j \in 1..NRows(mm) |-> Mul(e_var[j], Rat(mm[j][f]))]))

\* d is the guarded quotient of o (an integer) and a finite e: 0 where e = 0,
\* otherwise the finite value with d * e = o - e
IsGuardedQuotient(d, o, e) ==
    /\ IsFinite(d)
    /\ IF e = Zero THEN d = Zero ELSE Mul(d, e) = Sub(Rat(o), e)

\* C2: for finite non-negative arguments, on the host and on the accelerator
\* variant, every entry D[r, f] of the primitive's result is finite, is 0
\* where expected[r, f] = 0 and is (observed - expected) / expected elsewhere.
C2_GuardedDivision ==
    pc = "returned" =>
        \A r \in 1..NRows(X), f \in 1..NCols(motif_match) :
            IsGuardedQuotient(obs_dev[r][f],
                              ObservedAt(motif_match, X, r, f),
                              ExpectedAt(motif_match, expectation_obs, expectation_var, r, f))

\* a result with an entry whose expected value is 0 while its observed value
\* is not (the unguarded quotient is infinite), another whose observed and
\* expected values are both 0 (the unguarded quotient is NaN), and a non-zero one
C2_Witness ==
    /\ pc = "returned"
    /\ \E r \in 1..NRows(X), f \in 1..NCols(motif_match) :
          /\ ExpectedAt(motif_match, expectation_obs, expectation_var, r, f) = Zero
          /\ ObservedAt(motif_match, X, r, f) > 0
    /\ \E r \in 1..NRows(X), f \in 1..NCols(motif_match) :
          /\ ExpectedAt(motif_match, expectation_obs, expectation_var, r, f) = Zero
          /\ ObservedAt(motif_match, X, r, f) = 0
    /\ \E r \in 1..NRows(X), f \in 1..NCols(motif_match) :
          obs_dev[r][f] \notin {Zero, Rat(-1)}

-----------------------------------------------------------------------------
(* Properties of a run of compute_deviations                               *)

Cells == 1..n_obs
Features == 1..NCols(varm["motif_match"])
Samples == 1..NCols(varm["bg_peaks"])

HasBoth == "motif_match" \in DOMAIN varm /\ "bg_peaks" \in DOMAIN varm

\* the background deviations of cell c and feature f are one finite value
ConstantBackground(c, f) ==
    /\ IsFinite(bg_dev[1][c][f])
    /\ \A k \in Samples : bg_dev[k][c][f] = bg_dev[1][c][f]

\* C1 as stated: wherever the background deviations D_bg[:, c, f] are the same
\* for all samples, the returned Z[c, f] is exactly 0, whatever D_obs[c, f] is.
C1_AsStated ==
    pc = "done" =>
        \A c \in Cells, f \in Features : ConstantBackground(c, f) => dev[c][f] = Zero

\* the population variance of the background deviations of cell c, feature f
PopulationVariance(c, f) ==
    LET n == Len(bg_dev)
        m == Div(SumSeq([k \in 1..n |-> bg_dev[k][c][f]]), Rat(n))
        sq(k) == Mul(Sub(bg_dev[k][c][f], m), Sub(bg_dev[k][c][f], m))
    IN Div(SumSeq([k \in 1..n |-> sq(k)]), Rat(n))

\* C6 as stated: on the host and on the accelerator path std_bg[c, f] is the
\* population standard deviation of D_bg[:, c, f] (its square is the sum of
\* squared differences from the mean divided by n_bg_samples).
C6_AsStated ==
    pc \in {"nan_to_num", "done"} =>
        \A c \in Cells, f \in Features : std_bg_dev[c][f] = PopulationVariance(c, f)

\* C3 as stated: with motif_match or bg_peaks missing from varm, the run never
\* estimates the expectation, allocates the accumulators or iterates a chunk,
\* and the error it ends in names a missing field.
C3_AsStated ==
    (data_kind \in {"AnnData", "MuData"} /\ ~HasBoth) =>
        /\ n_expectation = 0
        /\ expectation_obs = Unset
        /\ obs_dev = Unset
        /\ bg_dev = Unset
        /\ end = 0
        /\ pc \in {"start", "error"}
        /\ pc = "error" =>
              \/ error = AssertMsg /\ "bg_peaks" \notin DOMAIN varm
              \/ error = KeyErrorMsg /\ "motif_match" \notin DOMAIN varm


\* the background match matrices, one per sample
BackgroundMatches ==
    [k \in Samples |-> SelectRows(varm["motif_match"], Column(varm["bg_peaks"], k - 1))]

\* z is what compute_deviations returns when the whole matrix is one chunk:
\* the primitive applied once to all rows for the observed deviations and once
\* per background sample, then the normalisation
IsWholeMatrixResult(z) ==
    \A e \in {compute_expectation(X)}, bm \in {BackgroundMatches} :
        \A obs \in {Deviations(gpu, <<varm["motif_match"], X, e[1], e[2]>>)},
           bg \in {[k \in Samples |-> Deviations(gpu, <<bm[k], X, e[1], e[2]>>)]} :
            \A mean \in {Mean(bg)}, std \in {IF gpu THEN TorchStd(bg) ELSE NpStd(bg)} :
                \A q \in {Quotient(obs, mean, std)} : z = nan_to_num(q)

\* C5: the returned Z does not depend on the chunk size: for every chunk size
\* it is the Z of the run that takes all cells as one chunk.
C5_ChunkInvariance ==
    pc = "done" => IsWholeMatrixResult(dev)

\* a finished run over several chunks, the last one shorter than the others,
\* of cells of unequal depth, with a non-zero entry in Z
C5_Witness ==
    /\ pc = "done"
    /\ chunk_size > 1
    /\ n_obs > chunk_size
    /\ n_obs % chunk_size # 0
    /\ expectation_obs[1] # expectation_obs[n_obs]
    /\ \E c \in Cells, f \in Features : dev[c][f] # Zero

\* every column of bg_peaks selects each region for itself
IdentityBackground == \A k \in Samples, j \in 1..Len(varm["bg_peaks"]) : varm["bg_peaks"][j][k] = j

\* C7: with identity background samples, once all chunks are done every
\* background slice D_bg[i] equals D_obs entry by entry, and the returned Z is
\* 0 for every cell and feature.
C7_IdentityBackground ==
    (HasBoth /\ IdentityBackground) =>
        /\ pc \in {"nan_to_num", "done"} => \A k \in Samples : bg_dev[k] = obs_dev
        /\ pc = "done" => \A c \in Cells, f \in Features : dev[c][f] = Zero

\* the spec's end-to-end scenario has run to its end; D_obs of cell 0 is
\* (1/3, -1)
C7_Witness ==
    /\ pc = "done"
    /\ X = ScenarioCount
    /\ varm["motif_match"] = ScenarioMatch
    /\ varm["bg_peaks"] = ScenarioBg
    /\ obs_dev[1] = <<<<1, 3>>, <<-1, 1>>>>
    /\ dev = Zeros(2, 2)

\* d is the primitive's value for the integer o and the expected value e
IsDeviation(d, o, e) ==
    IF IsFinite(e) THEN IsGuardedQuotient(d, o, e) ELSE IsNaN(d)

\* the region that background sample k (1-based) substitutes for region j
Substitute(j, k) == varm["bg_peaks"][j][k]

\* sum over regions j of C[c, B[j, k]] * M[B[j, k], f]: the background match
\* rows against the count columns of the same selection
ObservedRestricted(c, f, k) ==
    SumInt([j \in 1..NCols(X) |-> X[c][Substitute(j, k)] * varm["motif_match"][Substitute(j, k)][f]])

\* sum over regions j of C[c, j] * M[B[j, k], f]: the background match rows
\* against the count columns as they are
ObservedUnrestricted(c, f, k) ==
    SumInt([j \in 1..NCols(X) |-> X[c][j] * varm["motif_match"][Substitute(j, k)][f]])

\* e_cell[c] * sum over regions j of e_region[j] * M[B[j, k], f]
ExpectedBackground(c, f, k) ==
    Mul(expectation_obs[c],
        SumSeq([j \in 1..NCols(X) |-> Mul(expectation_var[j], Rat(varm["motif_match"][Substitute(j, k)][f]))]))

\* a background slice has just been stored: the inner loop has passed sample
\* i (1-based) of the current chunk
SliceStored == pc \in {"bg", "chunk"} /\ i > 0

\* C8 as stated: the background slice stored for sample i and chunk
\* [start, end) is the primitive applied to the match rows selected by the
\* sample and the chunk's counts restricted to the columns of the same
\* selection.
C8_AsStated ==
    SliceStored =>
        \A c \in RowRange(start, end), f \in Features :
            IsDeviation(bg_dev[i][c][f], ObservedRestricted(c, f, i), ExpectedBackground(c, f, i))

\* C8, amended: the background slice stored for sample i and chunk
\* [start, end) is the primitive applied to the match rows selected by the
\* sample and the chunk's counts with all their columns in place:
\* observed = C[start:end, :] . M[B[:, i], :].
C8_BackgroundSlice ==
    SliceStored =>
        \A c \in RowRange(start, end), f \in Features :
            IsDeviation(bg_dev[i][c][f], ObservedUnrestricted(c, f, i), ExpectedBackground(c, f, i))

\* a background slice has been written whose observed term differs between
\* the two readings, and from the observed term of the true match matrix
C8_Witness ==
    /\ SliceStored
    /\ start > 0
    /\ \E c \in RowRange(start, end), f \in Features :
          /\ ObservedRestricted(c, f, i) # ObservedUnrestricted(c, f, i)
          /\ ObservedUnrestricted(c, f, i) # ObservedAt(varm["motif_match"], X, c, f)
          /\ bg_dev[i][c][f] # Zero

\* C9: while the chunks are processed, every row of D_obs up to the end of
\* the current chunk has been written once and no later row at all; every
\* (sample, row) of D_bg of an earlier chunk has been written once, of the
\* current chunk once if the inner loop has passed the sample and not yet
\* otherwise, of a later chunk not at all; at the end of the run every row
\* of D_obs and every (sample, row) of D_bg has been written exactly once.
C9_WrittenExactlyOnce ==
    obs_writes # Unset =>
        /\ \A c \in Cells : obs_writes[c] = (IF c <= end THEN 1 ELSE 0)
        /\ \A k \in Samples, c \in Cells :
              bg_writes[k][c] = (IF c <= start \/ (c <= end /\ k <= i) THEN 1 ELSE 0)
        /\ pc \in {"nan_to_num", "done"} =>
              /\ \A c \in Cells : obs_writes[c] = 1
              /\ \A k \in Samples, c \in Cells : bg_writes[k][c] = 1

\* a finished run of several chunks and several background samples
C9_Witness ==
    /\ pc = "done"
    /\ n_obs > chunk_size
    /\ n_bg_peaks > 1
    /\ \A k \in Samples, c \in Cells : bg_writes[k][c] = 1

\* every row up to row `upto` of D_obs and of every background slice has
\* been written
WrittenUpTo(upto) ==
    /\ \A c \in 1..upto : obs_writes[c] = 1
    /\ \A k \in 1..n_bg_peaks, c \in 1..upto : bg_writes[k][c] = 1

\* C10: the expectation pair is computed once, before the first chunk, and
\* never changes afterwards; a chunk starts only when the observed slice and
\* all background slices of the chunks before it are written; the aggregation
\* starts only when those of all chunks are written, and Z is produced only
\* after the aggregation.
C10_Ordering ==
    [][/\ n_expectation' <= 1
       /\ expectation_obs # Unset =>
             expectation_obs' = expectation_obs /\ expectation_var' = expectation_var
       /\ end' # end => (n_expectation = 1 /\ expectation_obs # Unset /\ WrittenUpTo(end))
       /\ mean_bg_dev' # mean_bg_dev => (end = n_obs /\ WrittenUpTo(n_obs))
       /\ dev' # dev => (mean_bg_dev' # Unset /\ WrittenUpTo(n_obs))]_vars

\* the aggregation of a run of several chunks and several background samples
\* has produced Z
C10_Witness ==
    /\ pc = "nan_to_num"
    /\ start > 0
    /\ n_bg_peaks > 1
    /\ n_expectation = 1
    /\ dev # Unset

====
